---- MODULE Spec2Model ----
(* Model of the hypothesis-architecture explorer: the rule evaluation      *)
(* engine (evaluateRule / getEvaluatedRules), the App component's state    *)
(* and event handlers (fork, toggle service, update hypothesis, cycle      *)
(* status) and the comparison view's service diff.                         *)
EXTENDS Integers, Sequences, FiniteSets, TLC

(***************************************************************************)
(* Bounds of the model.                                                    *)
(***************************************************************************)
\* number of handler invocations explored from the initial render
MaxSteps == 3
\* largest value Date.now() returns (milliseconds after module load)
MaxClock == 1
\* longest service sequence handed to evaluateRule as a free-standing input
MaxEvalLen == 3

(***************************************************************************)
(* JavaScript values and array helpers.                                    *)
(***************************************************************************)
\* the value of a missing optional field (parentId of a root arrangement)
Undefined == "undefined"
\* the value null (compareId, selectedEntity, arrangementB)
Null == "null"
\* the result of an Array.find that matched nothing
NotFound == [undefined |-> TRUE]

(***************************************************************************)
(* Strings as character sequences: String.prototype.toLowerCase and        *)
(* String.prototype.includes work on the characters of the literals.       *)
(***************************************************************************)
CharsOf(s) ==
    CASE s = "High OpEx Maintenance" -> <<"H", "i", "g", "h", " ", "O", "p", "E", "x", " ", "M", "a", "i", "n", "t", "e", "n", "a", "n", "c", "e">>
      [] s = "99.5% Uptime" -> <<"9", "9", ".", "5", "%", " ", "U", "p", "t", "i", "m", "e">>
      [] s = "Local Compliance Control" -> <<"L", "o", "c", "a", "l", " ", "C", "o", "m", "p", "l", "i", "a", "n", "c", "e", " ", "C", "o", "n", "t", "r", "o", "l">>
      [] s = "DR RTO 48h" -> <<"D", "R", " ", "R", "T", "O", " ", "4", "8", "h">>
      [] s = "Manual Restore Process" -> <<"M", "a", "n", "u", "a", "l", " ", "R", "e", "s", "t", "o", "r", "e", " ", "P", "r", "o", "c", "e", "s", "s">>
      [] s = "CapEx Heavy" -> <<"C", "a", "p", "E", "x", " ", "H", "e", "a", "v", "y">>
      [] s = "Batch Processing (Overnight)" -> <<"B", "a", "t", "c", "h", " ", "P", "r", "o", "c", "e", "s", "s", "i", "n", "g", " ", "(", "O", "v", "e", "r", "n", "i", "g", "h", "t", ")">>
      [] s = "Limited Scale" -> <<"L", "i", "m", "i", "t", "e", "d", " ", "S", "c", "a", "l", "e">>
      [] s = "Cost Reduced 45%" -> <<"C", "o", "s", "t", " ", "R", "e", "d", "u", "c", "e", "d", " ", "4", "5", "%">>
      [] s = "Encryption at Rest" -> <<"E", "n", "c", "r", "y", "p", "t", "i", "o", "n", " ", "a", "t", " ", "R", "e", "s", "t">>
      [] s = "Audit Logging" -> <<"A", "u", "d", "i", "t", " ", "L", "o", "g", "g", "i", "n", "g">>
      [] s = "Infinite Scale" -> <<"I", "n", "f", "i", "n", "i", "t", "e", " ", "S", "c", "a", "l", "e">>
      [] s = "Performance 10x Increase" -> <<"P", "e", "r", "f", "o", "r", "m", "a", "n", "c", "e", " ", "1", "0", "x", " ", "I", "n", "c", "r", "e", "a", "s", "e">>
      [] s = "Predictive Insights" -> <<"P", "r", "e", "d", "i", "c", "t", "i", "v", "e", " ", "I", "n", "s", "i", "g", "h", "t", "s">>
      [] s = "Real-time Processing" -> <<"R", "e", "a", "l", "-", "t", "i", "m", "e", " ", "P", "r", "o", "c", "e", "s", "s", "i", "n", "g">>
      [] s = "DR RTO 30min" -> <<"D", "R", " ", "R", "T", "O", " ", "3", "0", "m", "i", "n">>
      [] s = "Auto-Failover" -> <<"A", "u", "t", "o", "-", "F", "a", "i", "l", "o", "v", "e", "r">>
      [] s = "99.99% Availability" -> <<"9", "9", ".", "9", "9", "%", " ", "A", "v", "a", "i", "l", "a", "b", "i", "l", "i", "t", "y">>
      [] s = "Manual Validation Required" -> <<"M", "a", "n", "u", "a", "l", " ", "V", "a", "l", "i", "d", "a", "t", "i", "o", "n", " ", "R", "e", "q", "u", "i", "r", "e", "d">>
      [] s = "Cognitive Load: High" -> <<"C", "o", "g", "n", "i", "t", "i", "v", "e", " ", "L", "o", "a", "d", ":", " ", "H", "i", "g", "h">>
      [] s = "Risk: Human Error" -> <<"R", "i", "s", "k", ":", " ", "H", "u", "m", "a", "n", " ", "E", "r", "r", "o", "r">>
      [] s = "Cost" -> <<"C", "o", "s", "t">>
      [] s = "DR" -> <<"D", "R">>
      [] s = "Performance" -> <<"P", "e", "r", "f", "o", "r", "m", "a", "n", "c", "e">>
      [] s = "Compliance" -> <<"C", "o", "m", "p", "l", "i", "a", "n", "c", "e">>
      [] s = "Validation" -> <<"V", "a", "l", "i", "d", "a", "t", "i", "o", "n">>
      [] s = "cost" -> <<"c", "o", "s", "t">>
      [] s = "HIGH OPEX COST" -> <<"H", "I", "G", "H", " ", "O", "P", "E", "X", " ", "C", "O", "S", "T">>
      [] s = "pex" -> <<"p", "e", "x">>
      [] s = "COST" -> <<"C", "O", "S", "T">>
      [] s = "" -> <<>>
UpperLetters == <<"A", "B", "C", "D", "E", "F", "G", "H", "I", "J", "K", "L", "M", "N", "O", "P", "Q", "R", "S", "T", "U", "V", "W", "X", "Y", "Z">>
LowerLetters == <<"a", "b", "c", "d", "e", "f", "g", "h", "i", "j", "k", "l", "m", "n", "o", "p", "q", "r", "s", "t", "u", "v", "w", "x", "y", "z">>

\* toLowerCase of one character: ASCII letters fold, everything else is kept
LowerChar(c) ==
    IF \E k \in 1..Len(UpperLetters) : UpperLetters[k] = c
    THEN LowerLetters[CHOOSE k \in 1..Len(UpperLetters) : UpperLetters[k] = c]
    ELSE c

\* String.prototype.toLowerCase
ToLowerCase(cs) == [i \in 1..Len(cs) |-> LowerChar(cs[i])]

\* includes as whole-string equality
IncludesExact(hay, needle) == hay = needle

\* String.prototype.includes: needle occurs as a contiguous substring of hay
Includes(hay, needle) ==
    \E off \in 0..(Len(hay) - Len(needle)) :
        \A j \in 1..Len(needle) : hay[off + j] = needle[j]

(***************************************************************************)
(* Enumerations (types.ts, appended to constants.ts).                      *)
(***************************************************************************)
VALIDATED == "VALIDATED"
UNCERTAIN == "UNCERTAIN"
CONFLICT == "CONFLICT"
ValidationStatus == {VALIDATED, UNCERTAIN, CONFLICT}

SATISFIED == "SATISFIED"
VIOLATED == "VIOLATED"
NOT_EVALUABLE == "NOT_EVALUABLE"
RuleStatus == {SATISFIED, VIOLATED, NOT_EVALUABLE}

CRITICAL == "CRITICAL"
WARNING == "WARNING"

CONTAINER == "CONTAINER"
SERVICE == "SERVICE"

(***************************************************************************)
(* Seed data (constants.ts).                                               *)
(***************************************************************************)
MOCK_SERVICES == <<
    [id |-> "svc-onprem-db", name |-> "Legacy SQL Cluster (On-Prem)", type |-> "DATABASE",
     contractMetrics |-> <<"High OpEx Maintenance", "99.5% Uptime", "Local Compliance Control">>,
     isExperimental |-> FALSE, evaluationStatus |-> VALIDATED],
    [id |-> "svc-onprem-backup", name |-> "Tape/Local Backup System", type |-> "DATABASE",
     contractMetrics |-> <<"DR RTO 48h", "Manual Restore Process", "CapEx Heavy">>,
     isExperimental |-> FALSE, evaluationStatus |-> VALIDATED],
    [id |-> "svc-onprem-analytics", name |-> "Legacy Reporting Server", type |-> "API",
     contractMetrics |-> <<"Batch Processing (Overnight)", "Limited Scale">>,
     isExperimental |-> FALSE, evaluationStatus |-> VALIDATED],
    [id |-> "cloud_storage_HIPAA", name |-> "Cloud Storage (HIPAA/HITRUST)", type |-> "DATABASE",
     contractMetrics |-> <<"Cost Reduced 45%", "Encryption at Rest", "Audit Logging", "Infinite Scale">>,
     isExperimental |-> FALSE, evaluationStatus |-> VALIDATED],
    [id |-> "cloud_analytics_platform", name |-> "Cloud Analytics Platform", type |-> "API",
     contractMetrics |-> <<"Performance 10x Increase", "Predictive Insights", "Real-time Processing">>,
     isExperimental |-> FALSE, evaluationStatus |-> VALIDATED],
    [id |-> "cloud_backup_DR", name |-> "Cloud DR & Failover", type |-> "QUEUE",
     contractMetrics |-> <<"DR RTO 30min", "Auto-Failover", "99.99% Availability">>,
     isExperimental |-> FALSE, evaluationStatus |-> VALIDATED],
    [id |-> "human_consistency_review", name |-> "Clinical Consistency Review", type |-> "AUTH",
     contractMetrics |-> <<"Manual Validation Required", "Cognitive Load: High", "Risk: Human Error">>,
     isExperimental |-> FALSE, evaluationStatus |-> UNCERTAIN]
>>

MIGRATION_DRIVERS == <<
    [id |-> "r_cost", description |-> "Infrastructure Cost Efficiency", severity |-> WARNING, matcher |-> "Cost"],
    [id |-> "r_dr", description |-> "Disaster Recovery Standards", severity |-> CRITICAL, matcher |-> "DR"],
    [id |-> "r_perf", description |-> "Analytics Performance", severity |-> WARNING, matcher |-> "Performance"],
    [id |-> "r_comp", description |-> "Regulatory Compliance (HIPAA)", severity |-> CRITICAL, matcher |-> "Compliance"],
    [id |-> "r_valid", description |-> "Clinical Data Integrity", severity |-> CRITICAL, matcher |-> "Validation"]
>>

CONT_LEGACY ==
    [id |-> "container_legacy_hospital_on_prem",
     versionLabel |-> "v1.0-Legacy-Baseline",
     hypothesis |-> "Traditional infrastructure offers maximum control but suffers from high costs (OpEx) and slow disaster recovery (48h).",
     activeRules |-> SelectSeq(MIGRATION_DRIVERS, LAMBDA r : r.id # "r_perf")]

CONT_CLOUD ==
    [id |-> "container_healthcare_cloud_case0",
     versionLabel |-> "v2.0-Cloud-Migration",
     hypothesis |-> "Migrating to HIPAA-compliant cloud reduces TCO by 45%, improves DR to 30min, and boosts analytics 10x.",
     activeRules |-> MIGRATION_DRIVERS]

\* Date.now() when constants.ts is loaded; the clock is counted from it
LoadTime == 0

INITIAL_ARRANGEMENTS == <<
    [id |-> "arr-legacy", name |-> "Legacy On-Premise", container |-> CONT_LEGACY,
     services |-> <<MOCK_SERVICES[1], MOCK_SERVICES[2], MOCK_SERVICES[3]>>,
     parentId |-> Undefined, createdAt |-> LoadTime],
    [id |-> "arr-cloud", name |-> "Cloud Migration (HIPAA)", container |-> CONT_CLOUD,
     services |-> <<MOCK_SERVICES[4], MOCK_SERVICES[5], MOCK_SERVICES[6],
                    [MOCK_SERVICES[7] EXCEPT !.evaluationStatus = CONFLICT]>>,
     parentId |-> "arr-legacy", createdAt |-> LoadTime + 1000]
>>

(***************************************************************************)
(* Rule evaluation engine.                                                 *)
(***************************************************************************)
\* every string literal that is a contract metric or a matcher
Literals == {
    "High OpEx Maintenance", "99.5% Uptime", "Local Compliance Control",
    "DR RTO 48h", "Manual Restore Process", "CapEx Heavy",
    "Batch Processing (Overnight)", "Limited Scale", "Cost Reduced 45%",
    "Encryption at Rest", "Audit Logging", "Infinite Scale",
    "Performance 10x Increase", "Predictive Insights", "Real-time Processing",
    "DR RTO 30min", "Auto-Failover", "99.99% Availability",
    "Manual Validation Required", "Cognitive Load: High", "Risk: Human Error",
    "Cost", "DR", "Performance",
    "Compliance", "Validation", "cost",
    "HIGH OPEX COST", "pex", "COST", ""
}

\* metric.toLowerCase() and rule.matcher.toLowerCase(), per literal
LoweredChars == [s \in Literals |-> ToLowerCase(CharsOf(s))]

\* metric.toLowerCase().includes(matcher.toLowerCase()), per pair of literals
MetricIncludes ==
    [metric \in Literals, matcher \in Literals |->
        Includes(LoweredChars[metric], LoweredChars[matcher])]

\* the filter predicate of evaluateRule: some metric, lower-cased, includes
\* the lower-cased matcher
IsRelevant(rule, s) ==
    \E k \in 1..Len(s.contractMetrics) : MetricIncludes[s.contractMetrics[k], rule.matcher]

\* services.some(s => s.evaluationStatus === status)
HasStatus(services, status) ==
    \E k \in 1..Len(services) : services[k].evaluationStatus = status

\* the returned record with the names collected back to front
EvaluatedRuleNamesReversed(rule, status, relevantServices) ==
    [id |-> rule.id, description |-> rule.description, severity |-> rule.severity,
     matcher |-> rule.matcher, status |-> status,
     matchingServices |->
        [k \in 1..Len(relevantServices) |->
            relevantServices[Len(relevantServices) + 1 - k].name]]

\* the record evaluateRule returns: {...rule, status, matchingServices}
EvaluatedRule(rule, status, relevantServices) ==
    [id |-> rule.id, description |-> rule.description, severity |-> rule.severity,
     matcher |-> rule.matcher, status |-> status,
     matchingServices |-> [k \in 1..Len(relevantServices) |-> relevantServices[k].name]]

\* evaluateRule with the two status tests in the wrong order
evaluateRuleUncertainFirst(rule, services) ==
    LET relevantServices == SelectSeq(services, LAMBDA s : IsRelevant(rule, s))
        status ==
            IF Len(relevantServices) = 0
            THEN (IF rule.severity = CRITICAL THEN VIOLATED ELSE NOT_EVALUABLE)
            ELSE IF HasStatus(relevantServices, UNCERTAIN) THEN NOT_EVALUABLE
                 ELSE IF HasStatus(relevantServices, CONFLICT) THEN VIOLATED
                 ELSE SATISFIED
    IN  EvaluatedRule(rule, status, relevantServices)

\* evaluateRule keeping the initial NOT_EVALUABLE when nothing is relevant
evaluateRuleNoAbsenceCheck(rule, services) ==
    LET relevantServices == SelectSeq(services, LAMBDA s : IsRelevant(rule, s))
        status ==
            IF Len(relevantServices) = 0
            THEN NOT_EVALUABLE
            ELSE IF HasStatus(relevantServices, CONFLICT) THEN VIOLATED
                 ELSE IF HasStatus(relevantServices, UNCERTAIN) THEN NOT_EVALUABLE
                 ELSE SATISFIED
    IN  EvaluatedRule(rule, status, relevantServices)

evaluateRule(rule, services) ==
    LET relevantServices == SelectSeq(services, LAMBDA s : IsRelevant(rule, s))
        hasConflict == HasStatus(relevantServices, CONFLICT)
        hasUncertainty == HasStatus(relevantServices, UNCERTAIN)
        status ==
            IF Len(relevantServices) = 0
            THEN (IF rule.severity = CRITICAL THEN VIOLATED ELSE NOT_EVALUABLE)
            ELSE IF hasConflict THEN VIOLATED
                 ELSE IF hasUncertainty THEN NOT_EVALUABLE
                 ELSE SATISFIED
    IN  EvaluatedRule(rule, status, relevantServices)

getEvaluatedRules(arrangement) ==
    [k \in 1..Len(arrangement.container.activeRules) |->
        evaluateRule(arrangement.container.activeRules[k], arrangement.services)]

(***************************************************************************)
(* State of the App component (useState hooks), the clock, and history.    *)
(***************************************************************************)
VARIABLES
    arrangements,         \* useState<Arrangement[]>
    activeArrangementId,  \* useState<string>
    showComparison,       \* useState(false)
    compareId,            \* useState<string | null>
    selectedEntity,       \* useState<{type, id} | null>
    now,                  \* the last value Date.now() returned
    steps,                \* handler invocations so far
    last,                 \* history: the handler that ran last and its argument
    forkedFrom,           \* history: per arrangement, the index it was forked from (0: seed)
    refs,                 \* per arrangement, how often its object was built anew
    arrRef,               \* how often the arrangements array was built anew
    memo,                 \* the useMemo cells of App and of ComparisonView
    inp,                  \* arguments of a free-standing call of an operation
    out                   \* its result

vars == <<arrangements, activeArrangementId, showComparison, compareId,
          selectedEntity, now, steps, last, forkedFrom, refs, arrRef, memo, inp, out>>

appVars == <<arrangements, activeArrangementId, showComparison, compareId,
             selectedEntity, now, steps, last, forkedFrom, refs, arrRef, memo>>

\* selectedEntity === null
NullEntity == [type |-> Null, id |-> Null]
\* arrangementB === null
NullArrangement == [id |-> Null]
\* no free-standing call in progress / no result yet
NoCall == [op |-> "none"]

\* service ids the handlers are called with: two catalog services of the
\* legacy seed, two of the cloud seed, and an id the catalog does not hold
ServiceIdInputs == {"svc-onprem-db", "cloud_backup_DR", "human_consistency_review", "svc-unknown"}
\* hypothesis texts typed into the textarea
TextInputs == {"Revised hypothesis."}

\* s.some(x => x.id === id)
HasId(s, id) == \E i \in 1..Len(s) : s[i].id = id

\* position of the first element of s with the given id
IndexOfId(s, id) == CHOOSE i \in 1..Len(s) : s[i].id = id /\ \A j \in 1..(i-1) : s[j].id # id

\* s.find(x => x.id === id): the FIRST element with the id, else undefined
FindById(s, id) == IF HasId(s, id) THEN s[IndexOfId(s, id)] ELSE NotFound

activeArrangement == FindById(arrangements, activeArrangementId)

(***************************************************************************)
(* Comparison engine (ComparisonView).                                     *)
(***************************************************************************)
\* arrangementB={arrangements.find(a => a.id === compareId) || null}
arrangementB ==
    IF HasId(arrangements, compareId) THEN FindById(arrangements, compareId)
    ELSE NullArrangement

\* getServiceDiff with common filtered by setA instead of setB
getServiceDiffCommonBySetA(arrangementA, arrangementB_) ==
    IF arrangementB_ = NullArrangement
    THEN [uniqueA |-> <<>>, uniqueB |-> <<>>, common |-> <<>>]
    ELSE LET setA == {arrangementA.services[k].id : k \in 1..Len(arrangementA.services)}
             setB == {arrangementB_.services[k].id : k \in 1..Len(arrangementB_.services)}
         IN  [uniqueA |-> SelectSeq(arrangementA.services, LAMBDA s : s.id \notin setB),
              uniqueB |-> SelectSeq(arrangementB_.services, LAMBDA s : s.id \notin setA),
              common  |-> SelectSeq(arrangementA.services, LAMBDA s : s.id \in setA)]

\* getServiceDiff without the early return: a null B counts as no services
getServiceDiffNoEarlyReturn(arrangementA, arrangementB_) ==
    LET servicesB == IF arrangementB_ = NullArrangement THEN <<>> ELSE arrangementB_.services
        setA == {arrangementA.services[k].id : k \in 1..Len(arrangementA.services)}
        setB == {servicesB[k].id : k \in 1..Len(servicesB)}
    IN  [uniqueA |-> SelectSeq(arrangementA.services, LAMBDA s : s.id \notin setB),
         uniqueB |-> SelectSeq(servicesB, LAMBDA s : s.id \notin setA),
         common  |-> SelectSeq(arrangementA.services, LAMBDA s : s.id \in setB)]

\* getServiceDiff taking the common services from B's list
getServiceDiffCommonFromB(arrangementA, arrangementB_) ==
    IF arrangementB_ = NullArrangement
    THEN [uniqueA |-> <<>>, uniqueB |-> <<>>, common |-> <<>>]
    ELSE LET setA == {arrangementA.services[k].id : k \in 1..Len(arrangementA.services)}
             setB == {arrangementB_.services[k].id : k \in 1..Len(arrangementB_.services)}
         IN  [uniqueA |-> SelectSeq(arrangementA.services, LAMBDA s : s.id \notin setB),
              uniqueB |-> SelectSeq(arrangementB_.services, LAMBDA s : s.id \notin setA),
              common  |-> SelectSeq(arrangementB_.services, LAMBDA s : s.id \in setA)]

getServiceDiff(arrangementA, arrangementB_) ==
    IF arrangementB_ = NullArrangement
    THEN [uniqueA |-> <<>>, uniqueB |-> <<>>, common |-> <<>>]
    ELSE LET setA == {arrangementA.services[k].id : k \in 1..Len(arrangementA.services)}
             setB == {arrangementB_.services[k].id : k \in 1..Len(arrangementB_.services)}
         IN  [uniqueA |-> SelectSeq(arrangementA.services, LAMBDA s : s.id \notin setB),
              uniqueB |-> SelectSeq(arrangementB_.services, LAMBDA s : s.id \notin setA),
              common  |-> SelectSeq(arrangementA.services, LAMBDA s : s.id \in setB)]

\* const rulesA = useMemo(...)
rulesA(arrangementA) ==
    [k \in 1..Len(arrangementA.container.activeRules) |->
        evaluateRule(arrangementA.container.activeRules[k], arrangementA.services)]

\* rulesB evaluating every migration driver instead of B's own active rules
rulesBAllDrivers(arrangementB_) ==
    IF arrangementB_ = NullArrangement THEN <<>>
    ELSE [k \in 1..Len(MIGRATION_DRIVERS) |->
            evaluateRule(MIGRATION_DRIVERS[k], arrangementB_.services)]

\* const rulesB = useMemo(...)
rulesB(arrangementB_) ==
    IF arrangementB_ = NullArrangement THEN <<>>
    ELSE [k \in 1..Len(arrangementB_.container.activeRules) |->
            evaluateRule(arrangementB_.container.activeRules[k], arrangementB_.services)]

(***************************************************************************)
(* useMemo. An object is identified by its position in the collection and  *)
(* the number of times a handler built it anew; a memo cell keeps its value *)
(* while its dependencies are the same objects as at the last render.      *)
(***************************************************************************)
\* a memo cell of a component that is not mounted
NoMemo == [deps |-> <<>>, value |-> <<>>]

\* useMemo that never recomputes once it holds a value
UseMemoKeepFirst(cell, deps, value) ==
    IF cell = NoMemo THEN [deps |-> deps, value |-> value] ELSE cell

\* useMemo(() => value, deps): recomputed when a dependency changed identity
UseMemo(cell, deps, value) ==
    IF cell.deps = deps THEN cell ELSE [deps |-> deps, value |-> value]

\* arrs.find(a => a.id === id) as an object: its identity and its fields
Located(arrs, rfs, id) ==
    IF ~HasId(arrs, id) THEN [ref |-> <<0, 0>>, obj |-> NotFound]
    ELSE LET p == IndexOfId(arrs, id)
         IN  [ref |-> <<p, rfs[p]>>, obj |-> arrs[p]]

\* what a render leaves in a cell whose callback threw
Thrown == <<"TypeError">>

\* getEvaluatedRules(activeArrangement): reading container of undefined throws
EvaluatedOrThrown(obj) == IF obj = NotFound THEN Thrown ELSE getEvaluatedRules(obj)

\* arrangements.find(a => a.id === compareId) || null
LocatedOrNull(arrs, rfs, id) ==
    IF HasId(arrs, id) THEN Located(arrs, rfs, id)
    ELSE [ref |-> <<0, 0>>, obj |-> NullArrangement]

\* one render of App, and of ComparisonView when it is shown, over the
\* memo cells of the previous render
Render(cells, arrs, rfs, aref, activeId, shown, cmpId) ==
    LET aa == UseMemo(cells.activeArrangement, <<aref, activeId>>, Located(arrs, rfs, activeId))
        b  == LocatedOrNull(arrs, rfs, cmpId)
    IN  [activeArrangement |-> aa,
         activeRules |-> UseMemo(cells.activeRules, aa.value.ref, EvaluatedOrThrown(aa.value.obj)),
         rulesA |-> IF shown /\ aa.value.obj # NotFound
                    THEN UseMemo(cells.rulesA, aa.value.ref, rulesA(aa.value.obj))
                    ELSE NoMemo,
         rulesB |-> IF shown /\ aa.value.obj # NotFound
                    THEN UseMemo(cells.rulesB, b.ref, rulesB(b.obj))
                    ELSE NoMemo]

\* the identities after an updater that built the objects at positions S anew
BumpRefs(rfs, S) == [i \in 1..Len(rfs) |-> IF i \in S THEN rfs[i] + 1 ELSE rfs[i]]

\* positions where the updaters of handleUpdateHypothesis and
\* handleCycleStatus return a new object
RebuiltById(prev, activeId) == {i \in 1..Len(prev) : prev[i].id = activeId}

\* positions where the updater of handleToggleService returns a new object:
\* it returns arr itself when the service is neither held nor in the catalog
RebuiltByToggle(prev, activeId, serviceId) ==
    {i \in 1..Len(prev) :
        /\ prev[i].id = activeId
        /\ HasId(prev[i].services, serviceId) \/ HasId(MOCK_SERVICES, serviceId)}

\* the render that follows a handler: rfs and aref are the identities the
\* handler left behind
Rerender(rfs, aref) ==
    /\ refs' = rfs
    /\ arrRef' = aref
    /\ memo' = Render(memo, arrangements', rfs, aref, activeArrangementId',
                      showComparison', compareId')

(***************************************************************************)
(* handleFork                                                              *)
(***************************************************************************)
\* a copy that resets the status of the service
CopyServiceAsUncertain(s) == [s EXCEPT !.evaluationStatus = UNCERTAIN]

\* ({...s}): a new object with the same fields
CopyService(s) == s

\* the fork object literal; t1, t2, t3 are the three Date.now() readings
ForkOf(src, t1, t2, t3) ==
    [id |-> "arr-" \o ToString(t1),
     name |-> src.name \o " (Fork)",
     services |-> [k \in 1..Len(src.services) |-> CopyService(src.services[k])],
     container |-> [id |-> "cont-" \o ToString(t2),
                    versionLabel |-> src.container.versionLabel \o ".1",
                    hypothesis |-> "Exploratory fork to test new boundary conditions.",
                    activeRules |-> src.container.activeRules],
     parentId |-> src.id,
     createdAt |-> t3]

\* fork putting the new arrangement in front: setArrangements(prev => [fork, ...prev])
ForkPrepended(arrs, activeId, t1, t2, t3) ==
    IF ~HasId(arrs, activeId)
    THEN [failed |-> TRUE, arrangements |-> arrs, activeArrangementId |-> activeId]
    ELSE [failed |-> FALSE,
          arrangements |-> <<ForkOf(FindById(arrs, activeId), t1, t2, t3)>> \o arrs,
          activeArrangementId |-> "arr-" \o ToString(t1)]

\* fork that activates the new id without appending the new arrangement
ForkWithoutAppend(arrs, activeId, t1, t2, t3) ==
    IF ~HasId(arrs, activeId)
    THEN [failed |-> TRUE, arrangements |-> arrs, activeArrangementId |-> activeId]
    ELSE [failed |-> FALSE,
          arrangements |-> arrs,
          activeArrangementId |-> "arr-" \o ToString(t1)]

\* fork as an operation on (collection, active id): reading a field of the
\* undefined activeArrangement throws before any state is set
Fork(arrs, activeId, t1, t2, t3) ==
    IF ~HasId(arrs, activeId)
    THEN [failed |-> TRUE, arrangements |-> arrs, activeArrangementId |-> activeId]
    ELSE [failed |-> FALSE,
          arrangements |-> Append(arrs, ForkOf(FindById(arrs, activeId), t1, t2, t3)),
          activeArrangementId |-> "arr-" \o ToString(t1)]

handleFork ==
    /\ steps < MaxSteps
    /\ steps' = steps + 1
    /\ last' = [op |-> "handleFork", arg |-> activeArrangementId]
    /\ UNCHANGED <<showComparison, compareId, selectedEntity, inp, out>>
    /\ \E t1 \in now..MaxClock : \E t2 \in t1..MaxClock : \E t3 \in t2..MaxClock :
         LET r == Fork(arrangements, activeArrangementId, t1, t2, t3)
         IN  /\ arrangements' = r.arrangements
             /\ activeArrangementId' = r.activeArrangementId
             /\ forkedFrom' = IF r.failed THEN forkedFrom
                              ELSE Append(forkedFrom, IndexOfId(arrangements, activeArrangementId))
             /\ now' = t3
             /\ Rerender(IF r.failed THEN refs ELSE Append(refs, 0),
                         IF r.failed THEN arrRef ELSE arrRef + 1)

(***************************************************************************)
(* handleToggleService                                                     *)
(***************************************************************************)
\* the updater body without its test of presence: the template is appended
\* even when the arrangement already holds the service
ToggleServiceInAlwaysAdd(arr, serviceId) ==
    IF ~HasId(MOCK_SERVICES, serviceId)
    THEN arr
    ELSE [arr EXCEPT !.services = Append(arr.services, FindById(MOCK_SERVICES, serviceId))]

\* the updater body putting the clone in front: [svcToAdd, ...arr.services]
ToggleServiceInPrepend(arr, serviceId) ==
    IF HasId(arr.services, serviceId)
    THEN [arr EXCEPT !.services = SelectSeq(arr.services, LAMBDA s : s.id # serviceId)]
    ELSE IF ~HasId(MOCK_SERVICES, serviceId)
         THEN arr
         ELSE [arr EXCEPT !.services = <<FindById(MOCK_SERVICES, serviceId)>> \o arr.services]

ToggleServiceIn(arr, serviceId) ==
    IF HasId(arr.services, serviceId)
    THEN [arr EXCEPT !.services = SelectSeq(arr.services, LAMBDA s : s.id # serviceId)]
    ELSE IF ~HasId(MOCK_SERVICES, serviceId)
         THEN arr
         ELSE [arr EXCEPT !.services = Append(arr.services, FindById(MOCK_SERVICES, serviceId))]

\* the updater without its test of the arrangement id
ToggleServiceEveryArrangement(prev, activeId, serviceId) ==
    [i \in 1..Len(prev) |-> ToggleServiceIn(prev[i], serviceId)]

\* the updater passed to setArrangements
ToggleService(prev, activeId, serviceId) ==
    [i \in 1..Len(prev) |->
        IF prev[i].id # activeId THEN prev[i] ELSE ToggleServiceIn(prev[i], serviceId)]

handleToggleService(serviceId) ==
    /\ steps < MaxSteps
    /\ arrangements' = ToggleService(arrangements, activeArrangementId, serviceId)
    /\ selectedEntity' =
         IF /\ selectedEntity.id = serviceId
            /\ \E i \in 1..Len(arrangements) :
                 /\ arrangements[i].id = activeArrangementId
                 /\ HasId(arrangements[i].services, serviceId)
         THEN NullEntity
         ELSE selectedEntity
    /\ steps' = steps + 1
    /\ last' = [op |-> "handleToggleService", arg |-> serviceId]
    /\ UNCHANGED <<activeArrangementId, showComparison, compareId, now, forkedFrom, inp, out>>
    /\ Rerender(BumpRefs(refs, RebuiltByToggle(arrangements, activeArrangementId, serviceId)),
                arrRef + 1)

(***************************************************************************)
(* handleUpdateHypothesis                                                  *)
(***************************************************************************)
UpdateHypothesis(prev, activeId, text) ==
    [i \in 1..Len(prev) |->
        IF prev[i].id # activeId THEN prev[i]
        ELSE [prev[i] EXCEPT !.container = [@ EXCEPT !.hypothesis = text]]]

handleUpdateHypothesis(text) ==
    /\ steps < MaxSteps
    /\ arrangements' = UpdateHypothesis(arrangements, activeArrangementId, text)
    /\ steps' = steps + 1
    /\ last' = [op |-> "handleUpdateHypothesis", arg |-> text]
    /\ UNCHANGED <<activeArrangementId, showComparison, compareId, selectedEntity,
                   now, forkedFrom, inp, out>>
    /\ Rerender(BumpRefs(refs, RebuiltById(arrangements, activeArrangementId)), arrRef + 1)

(***************************************************************************)
(* handleCycleStatus                                                       *)
(***************************************************************************)
\* the cycle with its second branch dropped: CONFLICT falls to the default
NextStatusTwoState(status) ==
    IF status = VALIDATED THEN CONFLICT ELSE VALIDATED

\* Cycle: VALIDATED -> CONFLICT -> UNCERTAIN -> VALIDATED
NextStatus(status) ==
    IF status = VALIDATED THEN CONFLICT
    ELSE IF status = CONFLICT THEN UNCERTAIN
    ELSE VALIDATED

CycleStatusIn(arr, serviceId) ==
    [arr EXCEPT !.services =
        [k \in 1..Len(arr.services) |->
            IF arr.services[k].id # serviceId THEN arr.services[k]
            ELSE [arr.services[k] EXCEPT !.evaluationStatus = NextStatus(@)]]]

\* the updater passed to setArrangements
CycleStatus(prev, activeId, serviceId) ==
    [i \in 1..Len(prev) |->
        IF prev[i].id # activeId THEN prev[i] ELSE CycleStatusIn(prev[i], serviceId)]

handleCycleStatus(serviceId) ==
    /\ steps < MaxSteps
    /\ arrangements' = CycleStatus(arrangements, activeArrangementId, serviceId)
    /\ steps' = steps + 1
    /\ last' = [op |-> "handleCycleStatus", arg |-> serviceId]
    /\ UNCHANGED <<activeArrangementId, showComparison, compareId, selectedEntity,
                   now, forkedFrom, inp, out>>
    /\ Rerender(BumpRefs(refs, RebuiltById(arrangements, activeArrangementId)), arrRef + 1)

(***************************************************************************)
(* The remaining state setters reachable from the UI.                      *)
(***************************************************************************)
\* arrangement selector: onClick={() => setActiveArrangementId(arr.id)}
SelectArrangement(i) ==
    /\ steps < MaxSteps
    /\ i \in 1..Len(arrangements)
    /\ activeArrangementId' = arrangements[i].id
    /\ steps' = steps + 1
    /\ last' = [op |-> "setActiveArrangementId", arg |-> arrangements[i].id]
    /\ UNCHANGED <<arrangements, showComparison, compareId, selectedEntity,
                   now, forkedFrom, inp, out>>
    /\ Rerender(refs, arrRef)

\* Compare button: setShowComparison(true)
OpenComparison ==
    /\ steps < MaxSteps
    /\ ~showComparison
    /\ showComparison' = TRUE
    /\ steps' = steps + 1
    /\ last' = [op |-> "setShowComparison", arg |-> "true"]
    /\ UNCHANGED <<arrangements, activeArrangementId, compareId, selectedEntity,
                   now, forkedFrom, inp, out>>
    /\ Rerender(refs, arrRef)

\* ComparisonView onClose: setShowComparison(false)
CloseComparison ==
    /\ steps < MaxSteps
    /\ showComparison
    /\ showComparison' = FALSE
    /\ steps' = steps + 1
    /\ last' = [op |-> "setShowComparison", arg |-> "false"]
    /\ UNCHANGED <<arrangements, activeArrangementId, compareId, selectedEntity,
                   now, forkedFrom, inp, out>>
    /\ Rerender(refs, arrRef)

\* ComparisonView onSelectB: the options are the arrangements other than A
SelectB(i) ==
    /\ steps < MaxSteps
    /\ showComparison
    /\ i \in 1..Len(arrangements)
    /\ arrangements[i].id # activeArrangement.id
    /\ compareId' = arrangements[i].id
    /\ steps' = steps + 1
    /\ last' = [op |-> "setCompareId", arg |-> arrangements[i].id]
    /\ UNCHANGED <<arrangements, activeArrangementId, showComparison, selectedEntity,
                   now, forkedFrom, inp, out>>
    /\ Rerender(refs, arrRef)

\* GraphCanvas onNodeClick: setSelectedEntity({type, id})
NodeClick(type, id) ==
    /\ steps < MaxSteps
    /\ selectedEntity' = [type |-> type, id |-> id]
    /\ steps' = steps + 1
    /\ last' = [op |-> "setSelectedEntity", arg |-> id]
    /\ UNCHANGED <<arrangements, activeArrangementId, showComparison, compareId,
                   now, forkedFrom, inp, out>>
    /\ Rerender(refs, arrRef)

\* the state after the first render
AppInit ==
    /\ arrangements = INITIAL_ARRANGEMENTS
    /\ activeArrangementId = INITIAL_ARRANGEMENTS[1].id
    /\ showComparison = FALSE
    /\ compareId = Null
    /\ selectedEntity = NullEntity
    /\ now = LoadTime
    /\ steps = 0
    /\ last = [op |-> "init", arg |-> ""]
    /\ forkedFrom = <<0, 0>>
    /\ refs = <<0, 0>>
    /\ arrRef = 0
    /\ memo = Render([activeArrangement |-> NoMemo, activeRules |-> NoMemo,
                      rulesA |-> NoMemo, rulesB |-> NoMemo],
                     INITIAL_ARRANGEMENTS, <<0, 0>>, 0, INITIAL_ARRANGEMENTS[1].id, FALSE, Null)

Init == AppInit /\ inp = NoCall /\ out = NoCall

Next ==
    \/ handleFork
    \/ \E serviceId \in ServiceIdInputs : handleToggleService(serviceId)
    \/ \E text \in TextInputs : handleUpdateHypothesis(text)
    \/ \E serviceId \in ServiceIdInputs : handleCycleStatus(serviceId)
    \/ \E i \in 1..Len(arrangements) : SelectArrangement(i)
    \/ OpenComparison
    \/ CloseComparison
    \/ \E i \in 1..Len(arrangements) : SelectB(i)
    \/ \E id \in ServiceIdInputs : NodeClick(SERVICE, id)
    \/ NodeClick(CONTAINER, activeArrangement.container.id)

Spec == Init /\ [][Next]_vars

(***************************************************************************)
(* evaluateRule as a free-standing function: the rule and the service      *)
(* sequence are drawn from bounded sets and the function is applied once.  *)
(***************************************************************************)
\* the first three migration drivers (matchers Cost, DR, Performance), each
\* with both severities
EvalRuleInputs ==
    {[MIGRATION_DRIVERS[k] EXCEPT !.severity = sev] : k \in 1..3, sev \in {CRITICAL, WARNING}}

\* catalog services with a DR metric (two of them) or a Cost metric, in
\* every evaluation status
EvalServiceInputs ==
    {[MOCK_SERVICES[k] EXCEPT !.evaluationStatus = st] : k \in {2, 4, 6}, st \in ValidationStatus}

SeqsUpTo(S, n) == UNION {[1..m -> S] : m \in 0..n}

EvalInputs ==
    {[op |-> "evaluateRule", rule |-> r, services |-> ss] :
        r \in EvalRuleInputs, ss \in SeqsUpTo(EvalServiceInputs, MaxEvalLen)}

CallEvaluateRule ==
    /\ inp.op = "evaluateRule"
    /\ out = NoCall
    /\ out' = [op |-> "evaluateRule", result |-> evaluateRule(inp.rule, inp.services)]
    /\ UNCHANGED <<appVars, inp>>

EvalInit == AppInit /\ inp \in EvalInputs /\ out = NoCall

EvalNext == CallEvaluateRule

SpecEval == EvalInit /\ [][EvalNext]_vars

(***************************************************************************)
(* The four mutations as free-standing operations on a collection and a    *)
(* target arrangement id (the id need not be in the collection).           *)
(***************************************************************************)
\* collections: the prefixes of the seed list, the empty one included
OpCollections == {SubSeq(INITIAL_ARRANGEMENTS, 1, n) : n \in 0..Len(INITIAL_ARRANGEMENTS)}
\* target ids: the two seeds and a stale id no arrangement has
OpTargets == {"arr-legacy", "arr-cloud", "arr-stale"}

OpInputs ==
    {[op |-> "fork", arrangements |-> c, target |-> t, t1 |-> ts[1], t2 |-> ts[2], t3 |-> ts[3]] :
        c \in OpCollections, t \in OpTargets,
        ts \in {x \in [1..3 -> LoadTime..MaxClock] : x[1] <= x[2] /\ x[2] <= x[3]}}
    \cup
    {[op |-> o, arrangements |-> c, target |-> t, arg |-> a] :
        o \in {"toggleService", "cycleEvaluationStatus"},
        c \in OpCollections, t \in OpTargets, a \in ServiceIdInputs}
    \cup
    {[op |-> "updateHypothesis", arrangements |-> c, target |-> t, arg |-> a] :
        c \in OpCollections, t \in OpTargets, a \in TextInputs}

CallFork ==
    /\ inp.op = "fork"
    /\ out = NoCall
    /\ LET r == Fork(inp.arrangements, inp.target, inp.t1, inp.t2, inp.t3)
       IN  out' = [op |-> "fork", failed |-> r.failed, arrangements |-> r.arrangements]
    /\ UNCHANGED <<appVars, inp>>

CallToggleService ==
    /\ inp.op = "toggleService"
    /\ out = NoCall
    /\ out' = [op |-> "toggleService", failed |-> FALSE,
               arrangements |-> ToggleService(inp.arrangements, inp.target, inp.arg)]
    /\ UNCHANGED <<appVars, inp>>

CallUpdateHypothesis ==
    /\ inp.op = "updateHypothesis"
    /\ out = NoCall
    /\ out' = [op |-> "updateHypothesis", failed |-> FALSE,
               arrangements |-> UpdateHypothesis(inp.arrangements, inp.target, inp.arg)]
    /\ UNCHANGED <<appVars, inp>>

CallCycleStatus ==
    /\ inp.op = "cycleEvaluationStatus"
    /\ out = NoCall
    /\ out' = [op |-> "cycleEvaluationStatus", failed |-> FALSE,
               arrangements |-> CycleStatus(inp.arrangements, inp.target, inp.arg)]
    /\ UNCHANGED <<appVars, inp>>

OpsInit == AppInit /\ inp \in OpInputs /\ out = NoCall

OpsNext == CallFork \/ CallToggleService \/ CallUpdateHypothesis \/ CallCycleStatus

SpecOps == OpsInit /\ [][OpsNext]_vars

(***************************************************************************)
(* Properties.                                                             *)
(***************************************************************************)
\* position of activeArrangement in the collection
activeIndex == IndexOfId(arrangements, activeArrangementId)

StatusesOf(arr) == [k \in 1..Len(arr.services) |-> arr.services[k].evaluationStatus]

IdsOf(s) == {s[k].id : k \in 1..Len(s)}

\* C1 (fork isolation): whenever handleCycleStatus runs while a fork A' of A
\* is the active arrangement, every service of A keeps its evaluationStatus,
\* and whenever it runs while A is active every service of A' keeps its own.
ForkIsolation ==
    [][ last'.op = "handleCycleStatus" =>
          \A a, f \in 1..Len(arrangements) :
              forkedFrom[f] = a =>
                  /\ activeIndex = f => StatusesOf(arrangements'[a]) = StatusesOf(arrangements[a])
                  /\ activeIndex = a => StatusesOf(arrangements'[f]) = StatusesOf(arrangements[f])
      ]_vars

\* C2 (unique arrangement ids): in every reachable state the ids of the
\* arrangements in the collection are pairwise distinct.
ArrangementIdsDistinct ==
    \A i, j \in 1..Len(arrangements) :
        i # j => arrangements[i].id # arrangements[j].id

\* positions of the services evaluateRule's input rule is relevant to
RelevantPositions == {k \in 1..Len(inp.services) : IsRelevant(inp.rule, inp.services[k])}

RelevantStatuses == {inp.services[k].evaluationStatus : k \in RelevantPositions}

\* C3 (precedence): with a non-empty relevant subset the verdict is VIOLATED
\* if a relevant service is CONFLICT, else NOT_EVALUABLE if one is UNCERTAIN,
\* else SATISFIED; the rule's other severity gives the same verdict.
EvaluatePrecedence ==
    (out.op = "evaluateRule" /\ RelevantPositions # {}) =>
        /\ out.result.status =
              IF CONFLICT \in RelevantStatuses THEN VIOLATED
              ELSE IF UNCERTAIN \in RelevantStatuses THEN NOT_EVALUABLE
              ELSE SATISFIED
        /\ \A sev \in {CRITICAL, WARNING} :
              evaluateRule([inp.rule EXCEPT !.severity = sev], inp.services).status
                  = out.result.status

\* C3 witness: a WARNING rule over three relevant services, one in each
\* status, was evaluated to VIOLATED.
EvaluatePrecedenceWitness ==
    /\ out.op = "evaluateRule"
    /\ inp.rule.severity = WARNING
    /\ Cardinality(RelevantPositions) = 3
    /\ RelevantStatuses = ValidationStatus
    /\ out.result.status = VIOLATED

\* C4 (no relevant service): the verdict is VIOLATED for a CRITICAL rule and
\* NOT_EVALUABLE for a WARNING rule, and matchingServices is empty.
EvaluateNoRelevant ==
    (out.op = "evaluateRule" /\ RelevantPositions = {}) =>
        /\ out.result.status =
              IF inp.rule.severity = CRITICAL THEN VIOLATED ELSE NOT_EVALUABLE
        /\ out.result.matchingServices = <<>>

\* C4 witness: a CRITICAL rule over a non-empty service sequence none of
\* which is relevant was evaluated to VIOLATED.
EvaluateNoRelevantWitness ==
    /\ out.op = "evaluateRule"
    /\ inp.rule.severity = CRITICAL
    /\ Len(inp.services) > 0
    /\ RelevantPositions = {}
    /\ out.result.status = VIOLATED
    /\ out.result.matchingServices = <<>>

\* the cycle the documentation states, as a table
CycleSuccessor == (VALIDATED :> CONFLICT) @@ (CONFLICT :> UNCERTAIN) @@ (UNCERTAIN :> VALIDATED)

CycleOnActive(arrs, serviceId) == CycleStatus(arrs, activeArrangementId, serviceId)

\* C5 (status cycle closure): every evaluationStatus is one of the three
\* enum values; for a service present in the active arrangement one
\* application moves its status to the cycle's successor and three
\* applications give back the collection unchanged.
CycleClosure ==
    /\ \A i \in 1..Len(arrangements) : \A k \in 1..Len(arrangements[i].services) :
          arrangements[i].services[k].evaluationStatus \in ValidationStatus
    /\ \A serviceId \in ServiceIdInputs :
          HasId(activeArrangement.services, serviceId) =>
              /\ FindById(CycleOnActive(arrangements, serviceId)[activeIndex].services,
                          serviceId).evaluationStatus
                    = CycleSuccessor[FindById(activeArrangement.services, serviceId).evaluationStatus]
              /\ CycleOnActive(CycleOnActive(CycleOnActive(arrangements, serviceId), serviceId),
                               serviceId) = arrangements

\* C5 witness: three handleCycleStatus calls on svc-onprem-db in arr-legacy
\* have brought the collection back to the seed value.
CycleClosureWitness ==
    /\ last = [op |-> "handleCycleStatus", arg |-> "svc-onprem-db"]
    /\ steps = 3
    /\ activeArrangementId = "arr-legacy"
    /\ arrangements = INITIAL_ARRANGEMENTS

\* a step's effect as the cycle operation is described: on the arrangement
\* at activeIndex only the evaluationStatus of the service with id serviceId
\* changes, and every other arrangement is unchanged
CycleFrame(serviceId) ==
    /\ Len(arrangements') = Len(arrangements)
    /\ \A i \in 1..Len(arrangements) :
          IF i # activeIndex
          THEN arrangements'[i] = arrangements[i]
          ELSE /\ [arrangements'[i] EXCEPT !.services = <<>>]
                    = [arrangements[i] EXCEPT !.services = <<>>]
               /\ Len(arrangements'[i].services) = Len(arrangements[i].services)
               /\ \A k \in 1..Len(arrangements[i].services) :
                     IF arrangements[i].services[k].id # serviceId
                     THEN arrangements'[i].services[k] = arrangements[i].services[k]
                     ELSE /\ [arrangements'[i].services[k] EXCEPT !.evaluationStatus = VALIDATED]
                               = [arrangements[i].services[k] EXCEPT !.evaluationStatus = VALIDATED]
                          /\ arrangements'[i].services[k].evaluationStatus
                               # arrangements[i].services[k].evaluationStatus

\* C6 (cycle frame): a handleCycleStatus call changes nothing but the
\* evaluationStatus of the service with the given id in the active
\* arrangement: every other arrangement, and in the active one the container,
\* id, name, parentId, the service ids in order, every other service and
\* every other field of the targeted service are unchanged.
CycleAffectsOne ==
    [][ last'.op = "handleCycleStatus" => CycleFrame(last'.arg) ]_vars

\* a step's effect as the toggle operation is described: on the arrangement
\* at activeIndex the service is removed, appended from the catalog, or
\* nothing changes; every other arrangement is unchanged
ToggleFrame(serviceId) ==
    /\ Len(arrangements') = Len(arrangements)
    /\ \A i \in 1..Len(arrangements) :
          IF i # activeIndex
          THEN arrangements'[i] = arrangements[i]
          ELSE /\ [arrangements'[i] EXCEPT !.services = <<>>]
                    = [arrangements[i] EXCEPT !.services = <<>>]
               /\ arrangements'[i].services =
                    IF serviceId \in IdsOf(arrangements[i].services)
                    THEN SelectSeq(arrangements[i].services, LAMBDA s : s.id # serviceId)
                    ELSE IF serviceId \in IdsOf(MOCK_SERVICES)
                         THEN arrangements[i].services \o <<FindById(MOCK_SERVICES, serviceId)>>
                         ELSE arrangements[i].services

\* C7 (toggle): a handleToggleService call removes the service when present
\* (the rest keep order and value), appends the catalog template when absent
\* and in the catalog, changes nothing when absent and not in the catalog;
\* every other arrangement is unchanged.
ToggleEffect ==
    [][ last'.op = "handleToggleService" => ToggleFrame(last'.arg) ]_vars

\* C1, C6 and C7 restricted to steps taken while the arrangement ids are
\* pairwise distinct
ForkIsolationWhenIdsDistinct ==
    [][ (ArrangementIdsDistinct /\ last'.op = "handleCycleStatus") =>
          \A a, f \in 1..Len(arrangements) :
              forkedFrom[f] = a =>
                  /\ activeIndex = f => StatusesOf(arrangements'[a]) = StatusesOf(arrangements[a])
                  /\ activeIndex = a => StatusesOf(arrangements'[f]) = StatusesOf(arrangements[f])
      ]_vars

CycleAffectsOneWhenIdsDistinct ==
    [][ (ArrangementIdsDistinct /\ last'.op = "handleCycleStatus") => CycleFrame(last'.arg) ]_vars

ToggleEffectWhenIdsDistinct ==
    [][ (ArrangementIdsDistinct /\ last'.op = "handleToggleService") => ToggleFrame(last'.arg) ]_vars

TargetMissing == ~HasId(inp.arrangements, inp.target)

\* C8 as stated: each of the four operations, called with an arrangement id
\* that is not in the collection, returns the collection unchanged and does
\* not fail; so does cycleEvaluationStatus with a service id absent from the
\* targeted arrangement.
OperationsTotal ==
    out # NoCall =>
        /\ TargetMissing => (~out.failed /\ out.arrangements = inp.arrangements)
        /\ (/\ out.op = "cycleEvaluationStatus"
            /\ ~TargetMissing
            /\ ~HasId(FindById(inp.arrangements, inp.target).services, inp.arg))
               => (~out.failed /\ out.arrangements = inp.arrangements)

\* C8 amended: toggleService, updateHypothesis and cycleEvaluationStatus
\* called with an arrangement id that is not in the collection return the
\* collection unchanged and do not fail, and so does cycleEvaluationStatus
\* with a service id absent from the targeted arrangement; fork called with
\* an id that is not in the collection fails and adds no arrangement.
OperationsTotalExceptFork ==
    out # NoCall =>
        /\ (TargetMissing /\ out.op # "fork")
               => (~out.failed /\ out.arrangements = inp.arrangements)
        /\ (TargetMissing /\ out.op = "fork")
               => (out.failed /\ out.arrangements = inp.arrangements)
        /\ (/\ out.op = "cycleEvaluationStatus"
            /\ ~TargetMissing
            /\ ~HasId(FindById(inp.arrangements, inp.target).services, inp.arg))
               => (~out.failed /\ out.arrangements = inp.arrangements)

\* C8 witness: toggleService of a catalog service was called on the seed
\* collection with the stale id and returned the collection as it was.
OperationsTotalWitness ==
    /\ out.op = "toggleService"
    /\ inp.target = "arr-stale"
    /\ inp.arg = "cloud_backup_DR"
    /\ inp.arrangements = INITIAL_ARRANGEMENTS
    /\ ~out.failed
    /\ out.arrangements = INITIAL_ARRANGEMENTS

\* C9 (disjointness of the diff): for any two arrangements of the
\* collection, as A and B, no service id is in both uniqueA and uniqueB and
\* none is in both uniqueA and common.
DiffDisjoint ==
    \A a, b \in 1..Len(arrangements) :
        LET d == getServiceDiff(arrangements[a], arrangements[b])
        IN  /\ IdsOf(d.uniqueA) \cap IdsOf(d.uniqueB) = {}
            /\ IdsOf(d.uniqueA) \cap IdsOf(d.common) = {}

\* C9 witness: the comparison is open with a B chosen, and the diff of the
\* active arrangement against B has services in all three parts.
DiffDisjointWitness ==
    /\ showComparison
    /\ arrangementB # NullArrangement
    /\ LET d == getServiceDiff(activeArrangement, arrangementB)
       IN  d.uniqueA # <<>> /\ d.uniqueB # <<>> /\ d.common # <<>>

\* C10 as stated: with B unset the three diff parts are empty and both
\* rule lists are empty.
CompareNullAllEmpty ==
    (showComparison /\ arrangementB = NullArrangement) =>
        /\ getServiceDiff(activeArrangement, arrangementB)
              = [uniqueA |-> <<>>, uniqueB |-> <<>>, common |-> <<>>]
        /\ rulesA(activeArrangement) = <<>>
        /\ rulesB(arrangementB) = <<>>

\* C10 amended: with B unset the three diff parts are empty and B's rule
\* list is empty; A's rule list still holds one evaluated rule per active
\* rule of A.
CompareNullB ==
    (showComparison /\ arrangementB = NullArrangement) =>
        /\ getServiceDiff(activeArrangement, arrangementB)
              = [uniqueA |-> <<>>, uniqueB |-> <<>>, common |-> <<>>]
        /\ rulesB(arrangementB) = <<>>
        /\ Len(rulesA(activeArrangement)) = Len(activeArrangement.container.activeRules)
        /\ \A k \in 1..Len(rulesA(activeArrangement)) :
              rulesA(activeArrangement)[k].id = activeArrangement.container.activeRules[k].id

\* C10 witness: the comparison was just opened on an arrangement with
\* rules and no B is chosen.
CompareNullBWitness ==
    /\ showComparison
    /\ compareId = Null
    /\ arrangementB = NullArrangement
    /\ last.op = "setShowComparison"
    /\ Len(activeArrangement.container.activeRules) > 0
    /\ Len(activeArrangement.services) > 0

\* C11 (service ids unique per arrangement): in every reachable state no
\* arrangement holds two services with the same id.
ServiceIdsDistinct ==
    \A i \in 1..Len(arrangements) :
        \A k, l \in 1..Len(arrangements[i].services) :
            k # l => arrangements[i].services[k].id # arrangements[i].services[l].id

\* C11 witness: handleToggleService has just appended a catalog service to
\* an arrangement created by handleFork.
ServiceIdsDistinctWitness ==
    /\ last.op = "handleToggleService"
    /\ forkedFrom[activeIndex] # 0
    /\ Len(activeArrangement.services) = Len(arrangements[forkedFrom[activeIndex]].services) + 1
    /\ activeArrangement.services[Len(activeArrangement.services)].id = last.arg

\* following parentId links from the arrangement at position i, having
\* already passed the arrangements whose ids are in seen: TRUE when a root is
\* reached without meeting an id again
RECURSIVE ReachesRoot(_, _)
ReachesRoot(i, seen) ==
    LET p == arrangements[i].parentId
    IN  IF p = Undefined THEN TRUE
        ELSE IF p \in seen \cup {arrangements[i].id} THEN FALSE
        ELSE IF ~HasId(arrangements, p) THEN FALSE
        ELSE ReachesRoot(IndexOfId(arrangements, p), seen \cup {arrangements[i].id})

\* C12 (forest): every parentId that is set names an arrangement of the
\* collection other than the arrangement carrying it, and following the
\* parentId links from any arrangement ends at a root without revisiting.
ArrangementsFormForest ==
    \A i \in 1..Len(arrangements) :
        /\ arrangements[i].parentId # Undefined =>
              /\ HasId(arrangements, arrangements[i].parentId)
              /\ arrangements[i].parentId # arrangements[i].id
        /\ ReachesRoot(i, {})

\* C12 restricted to the states in which the arrangement ids are pairwise
\* distinct
ArrangementsFormForestWhenIdsDistinct ==
    ArrangementIdsDistinct => ArrangementsFormForest

\* C13 (stable lineage): no step removes an arrangement or changes the id
\* or parentId of one already in the collection; the collection grows only
\* in a handleFork step, and every handleFork step appends exactly one.
LineageStable ==
    [][ /\ Len(arrangements') >= Len(arrangements)
        /\ \A i \in 1..Len(arrangements) :
              /\ arrangements'[i].id = arrangements[i].id
              /\ arrangements'[i].parentId = arrangements[i].parentId
        /\ Len(arrangements') # Len(arrangements) => last'.op = "handleFork"
        /\ last'.op = "handleFork" => Len(arrangements') = Len(arrangements) + 1
      ]_vars

\* C13 witness: an arrangement forked from arr-legacy is still in third
\* place, with its parentId, after a later handleUpdateHypothesis on it.
LineageStableWitness ==
    /\ last.op = "handleUpdateHypothesis"
    /\ Len(arrangements) = 3
    /\ forkedFrom[3] = 1
    /\ arrangements[3].parentId = "arr-legacy"
    /\ arrangements[3].container.hypothesis \in TextInputs

\* a step's effect as the hypothesis update is described: the arrangement at
\* activeIndex differs from before in its container's hypothesis only, which
\* is the given text, and every other arrangement is unchanged
HypothesisFrame(text) ==
    /\ Len(arrangements') = Len(arrangements)
    /\ \A i \in 1..Len(arrangements) :
          IF i # activeIndex
          THEN arrangements'[i] = arrangements[i]
          ELSE /\ arrangements'[i].container.hypothesis = text
               /\ [arrangements'[i] EXCEPT !.container = [@ EXCEPT !.hypothesis = ""]]
                    = [arrangements[i] EXCEPT !.container = [@ EXCEPT !.hypothesis = ""]]

\* C14 (hypothesis frame): a handleUpdateHypothesis call replaces only the
\* hypothesis text of the active arrangement's container; that container's
\* id, versionLabel and activeRules, the arrangement's services, id and
\* parentId, and every other arrangement are unchanged.
HypothesisOnlyActive ==
    [][ last'.op = "handleUpdateHypothesis" => HypothesisFrame(last'.arg) ]_vars

\* C14 restricted to steps taken while the arrangement ids are pairwise
\* distinct
HypothesisOnlyActiveWhenIdsDistinct ==
    [][ (ArrangementIdsDistinct /\ last'.op = "handleUpdateHypothesis")
            => HypothesisFrame(last'.arg) ]_vars

\* a handleFork step's effect as fork is described, S being the arrangement
\* at activeIndex before the step and F the last arrangement after it
ForkResult ==
    LET S == arrangements[activeIndex]
        n == Len(arrangements) + 1
        F == arrangements'[n]
    IN  /\ Len(arrangements') = n
        /\ \A i \in 1..Len(arrangements) : arrangements'[i] = arrangements[i]
        /\ F.parentId = S.id
        /\ F.services = S.services
        /\ F.container.id # S.container.id
        /\ F.container.versionLabel = S.container.versionLabel \o ".1"
        /\ F.container.hypothesis = "Exploratory fork to test new boundary conditions."
        /\ F.container.activeRules = S.container.activeRules
        /\ IndexOfId(arrangements', activeArrangementId') = n

\* C15 (fork result): a handleFork step appends, after the unchanged
\* existing arrangements, an arrangement with the source's id as parentId,
\* the source's services in order, a container with a new id, the source's
\* label plus ".1", the placeholder hypothesis and the source's rules; the
\* new arrangement is the active one afterwards.
ForkProduces ==
    [][ last'.op = "handleFork" => ForkResult ]_vars

\* C15 restricted to the handleFork steps whose Date.now() readings give
\* an arrangement id and a container id no existing arrangement carries
ForkProducesWhenStampsFresh ==
    [][ (/\ last'.op = "handleFork"
         /\ Len(arrangements') = Len(arrangements) + 1
         /\ \A i \in 1..Len(arrangements) :
               /\ arrangements[i].id # arrangements'[Len(arrangements) + 1].id
               /\ arrangements[i].container.id # arrangements'[Len(arrangements) + 1].container.id)
            => ForkResult ]_vars

\* the k-th smallest of the relevant positions
KthRelevantPosition(k) ==
    CHOOSE p \in RelevantPositions : Cardinality({q \in RelevantPositions : q <= p}) = k

Occurrences(s, x) == Cardinality({k \in 1..Len(s) : s[k] = x})

\* the diff of A against B partitions the services as compare is described
DiffPartitions(A, B) ==
    LET d == getServiceDiff(A, B)
    IN  /\ Len(d.uniqueA) + Len(d.common) = Len(A.services)
        /\ \A k \in 1..Len(A.services) :
              /\ Occurrences(d.uniqueA, A.services[k]) + Occurrences(d.common, A.services[k]) = 1
              /\ Occurrences(d.common, A.services[k]) = 1 <=> A.services[k].id \in IdsOf(B.services)
        /\ Len(d.uniqueB) = Cardinality({l \in 1..Len(B.services) : B.services[l].id \notin IdsOf(A.services)})
        /\ \A l \in 1..Len(B.services) :
              Occurrences(d.uniqueB, B.services[l]) =
                  IF B.services[l].id \in IdsOf(A.services) THEN 0 ELSE 1

\* C17 (partition): for any two arrangements of the collection, as A and B,
\* every service of A is exactly once in uniqueA or common, in common
\* exactly when B holds its id and then as A's own copy, and uniqueB holds
\* exactly the services of B whose id A does not hold.
DiffPartitionsById ==
    \A a, b \in 1..Len(arrangements) : DiffPartitions(arrangements[a], arrangements[b])

\* C17 witness: the comparison is open with a B chosen, and some common
\* service is reported with the active arrangement's status while B holds
\* the same id with another status.
DiffPartitionsWitness ==
    /\ showComparison
    /\ arrangementB # NullArrangement
    /\ LET d == getServiceDiff(activeArrangement, arrangementB)
       IN  \E k \in 1..Len(d.common) :
              /\ d.common[k] = FindById(activeArrangement.services, d.common[k].id)
              /\ d.common[k].evaluationStatus
                    # FindById(arrangementB.services, d.common[k].id).evaluationStatus

\* both sides of the comparison are the plain evaluation of the arrangement
\* the view is given as A and, once one is chosen, as B
RulesAreOwnEvaluation ==
    /\ rulesA(activeArrangement) = getEvaluatedRules(activeArrangement)
    /\ arrangementB # NullArrangement =>
          rulesB(arrangementB) = getEvaluatedRules(arrangementB)

\* a step that leaves an arrangement's rules and services alone leaves its
\* evaluated rules alone, on either side of the comparison
RulesFollowOwnInputs ==
    \A a \in 1..Len(arrangements) :
        (/\ a <= Len(arrangements')
         /\ arrangements'[a].container.activeRules = arrangements[a].container.activeRules
         /\ arrangements'[a].services = arrangements[a].services)
        => \/ arrangements'[a] = arrangements[a]
           \/ /\ rulesA(arrangements'[a]) = rulesA(arrangements[a])
              /\ rulesB(arrangements'[a]) = rulesB(arrangements[a])

\* C18 (own rules, own services): in every reachable state the comparison's
\* evaluated rules for A and for the chosen B equal getEvaluatedRules of
\* that arrangement, and no step that leaves an arrangement's own rules and
\* services unchanged changes what either side computes for it, whatever
\* the step does to other arrangements.
RulesOwnOnly == [](RulesAreOwnEvaluation) /\ [][RulesFollowOwnInputs]_vars

\* C18 witness: the comparison is open on a chosen B whose rule list is
\* not A's, a service of A has just been cycled so that A's evaluated rules
\* are no longer those of the seed, and B's are still those of the seed.
RulesOwnOnlyWitness ==
    /\ showComparison
    /\ arrangementB # NullArrangement
    /\ last.op = "handleCycleStatus"
    /\ activeArrangementId = "arr-legacy"
    /\ compareId = "arr-cloud"
    /\ Len(rulesB(arrangementB)) # Len(rulesA(activeArrangement))
    /\ rulesA(activeArrangement) # getEvaluatedRules(INITIAL_ARRANGEMENTS[1])
    /\ rulesB(arrangementB) = getEvaluatedRules(INITIAL_ARRANGEMENTS[2])

(***************************************************************************)
(* The relevance test of evaluateRule on its own: one rule, whose matcher  *)
(* is drawn from a set of spellings, is evaluated against one service.     *)
(***************************************************************************)
\* matchers: the drivers' own spellings, other casings of one of them, a
\* fragment found inside a word of a metric, and the empty string
MatcherInputs == {"Cost", "cost", "COST", "DR", "Performance", "Compliance", "pex", ""}

\* the rule argument: the first driver with the matcher and severity replaced
MatchRuleInputs ==
    {[MIGRATION_DRIVERS[1] EXCEPT !.matcher = m, !.severity = sev] :
        m \in MatcherInputs, sev \in {CRITICAL, WARNING}}

\* the service argument: every catalog service, and three services whose
\* contractMetrics are an upper-case metric, a metric equal to a matcher,
\* and no metric at all
MatchServiceInputs ==
    {MOCK_SERVICES[k] : k \in 1..Len(MOCK_SERVICES)}
    \cup
    {[MOCK_SERVICES[1] EXCEPT !.id = "svc-opex", !.name = "OpEx Ledger",
                              !.contractMetrics = <<"HIGH OPEX COST">>],
     [MOCK_SERVICES[1] EXCEPT !.id = "svc-cost", !.name = "Cost Centre",
                              !.contractMetrics = <<"Cost">>],
     [MOCK_SERVICES[1] EXCEPT !.id = "svc-bare", !.name = "Bare Service",
                              !.contractMetrics = <<>>]}

MatchInputs ==
    {[op |-> "match", rule |-> r, services |-> <<s>>] :
        r \in MatchRuleInputs, s \in MatchServiceInputs}

CallMatch ==
    /\ inp.op = "match"
    /\ out = NoCall
    /\ out' = [op |-> "match", result |-> evaluateRule(inp.rule, inp.services)]
    /\ UNCHANGED <<appVars, inp>>

MatchInit == AppInit /\ inp \in MatchInputs /\ out = NoCall

MatchNext == CallMatch

SpecMatch == MatchInit /\ [][MatchNext]_vars

\* two characters that are the same up to the case of an ASCII letter
SameLetter(a, b) ==
    \/ a = b
    \/ \E k \in 1..Len(UpperLetters) : {a, b} = {UpperLetters[k], LowerLetters[k]}

\* the matcher occurs in the metric at some offset, letter case ignored
ContainsIgnoringCase(metric, matcher) ==
    LET h == CharsOf(metric)
        n == CharsOf(matcher)
    IN  \E off \in 0..(Len(h) - Len(n)) : \A j \in 1..Len(n) : SameLetter(h[off + j], n[j])

StatusChangeIsCycle(a) ==
    \A id \in IdsOf(arrangements[a].services) \cap IdsOf(arrangements'[a].services) :
        FindById(arrangements'[a].services, id).evaluationStatus
            # FindById(arrangements[a].services, id).evaluationStatus
        => /\ last'.op = "handleCycleStatus"
           /\ last'.arg = id
           /\ a = activeIndex

\* C20 (no automatic resolution): in every step, a service that is in an
\* arrangement before and after the step changes its evaluationStatus only
\* when the step is handleCycleStatus on that service with that arrangement
\* active; fork, update of the hypothesis, toggle, selection and the
\* comparison leave every status of every staying service unchanged.
StatusChangesOnlyByCycle ==
    [][ \A a \in 1..Len(arrangements) : StatusChangeIsCycle(a) ]_vars

StatusChangesOnlyByCycleWhenIdsDistinct ==
    [][ ArrangementIdsDistinct => \A a \in 1..Len(arrangements) : StatusChangeIsCycle(a) ]_vars

\* C21 (no stale verdicts): in every reachable state the memoized
\* activeRules equal getEvaluatedRules of the active arrangement as it is
\* now, and while the comparison is shown its memoized rulesA and rulesB
\* equal the evaluation of the current A and of the current B (the empty
\* list when no B is chosen).
MemoNeverStale ==
    /\ memo.activeArrangement.value.obj = activeArrangement
    /\ memo.activeRules.value = getEvaluatedRules(activeArrangement)
    /\ showComparison =>
          /\ memo.rulesA.value = getEvaluatedRules(activeArrangement)
          /\ memo.rulesB.value = IF arrangementB = NullArrangement THEN <<>>
                                 ELSE getEvaluatedRules(arrangementB)

\* C21 witness: with the comparison shown on a chosen B, a status of the
\* active seed arrangement has just been cycled, the memoized verdicts of A
\* are no longer those of the seed, and the cell of rulesB still holds the
\* value computed for the object B was when it was chosen.
MemoNeverStaleWitness ==
    /\ showComparison
    /\ arrangementB # NullArrangement
    /\ last.op = "handleCycleStatus"
    /\ activeArrangementId = "arr-legacy"
    /\ memo.activeRules.value # getEvaluatedRules(INITIAL_ARRANGEMENTS[1])
    /\ memo.rulesA.value # getEvaluatedRules(INITIAL_ARRANGEMENTS[1])
    /\ memo.activeRules.deps = <<1, 1>>
    /\ memo.rulesB.deps = <<2, 0>>

(***************************************************************************)
(* handleToggleService called twice with the same service id, then         *)
(* handleCycleStatus on that id, as operations on a collection and a       *)
(* target arrangement id.                                                  *)
(***************************************************************************)
\* service ids: every catalog service and an id the catalog does not hold
TwiceServiceIds == {MOCK_SERVICES[k].id : k \in 1..Len(MOCK_SERVICES)} \cup {"svc-unknown"}

\* the seed collection after the user has cycled the service to a status
TwiceCollection(target, serviceId, st) ==
    [i \in 1..Len(INITIAL_ARRANGEMENTS) |->
        IF INITIAL_ARRANGEMENTS[i].id # target THEN INITIAL_ARRANGEMENTS[i]
        ELSE [INITIAL_ARRANGEMENTS[i] EXCEPT !.services =
                [k \in 1..Len(@) |->
                    IF @[k].id # serviceId THEN @[k]
                    ELSE [@[k] EXCEPT !.evaluationStatus = st]]]]

TwiceInputs ==
    {[op |-> "toggleTwice", arrangements |-> TwiceCollection(t, id, st), target |-> t, arg |-> id] :
        t \in OpTargets, id \in TwiceServiceIds, st \in ValidationStatus}

CallToggleFirst ==
    /\ inp.op = "toggleTwice"
    /\ out = NoCall
    /\ out' = [op |-> "toggledOnce",
               arrangements |-> ToggleService(inp.arrangements, inp.target, inp.arg)]
    /\ UNCHANGED <<appVars, inp>>

CallToggleSecond ==
    /\ inp.op = "toggleTwice"
    /\ out.op = "toggledOnce"
    /\ out' = [op |-> "toggledTwice", first |-> out.arrangements,
               arrangements |-> ToggleService(out.arrangements, inp.target, inp.arg)]
    /\ UNCHANGED <<appVars, inp>>

CallCycleAfterToggles ==
    /\ inp.op = "toggleTwice"
    /\ out.op = "toggledTwice"
    /\ out' = [op |-> "cycledAfter", first |-> out.first, second |-> out.arrangements,
               arrangements |-> CycleStatus(out.arrangements, inp.target, inp.arg)]
    /\ UNCHANGED <<appVars, inp>>

TwiceInit == AppInit /\ inp \in TwiceInputs /\ out = NoCall

TwiceNext == CallToggleFirst \/ CallToggleSecond \/ CallCycleAfterToggles

SpecToggleTwice == TwiceInit /\ [][TwiceNext]_vars

\* the targeted arrangement held the service before the first call
TwiceHeld ==
    /\ HasId(inp.arrangements, inp.target)
    /\ HasId(FindById(inp.arrangements, inp.target).services, inp.arg)

\* the catalog template of the toggled service
TwiceTemplate == FindById(MOCK_SERVICES, inp.arg)

\* the effect of the two calls on the targeted arrangement
TwiceEffect(first, second) ==
    LET a0 == FindById(inp.arrangements, inp.target)
        a1 == FindById(first, inp.target)
        a2 == FindById(second, inp.target)
        n  == Len(a0.services)
    IN  /\ ~HasId(a1.services, inp.arg)
        /\ Len(a1.services) = n - 1
        /\ \A k \in 1..n :
              a0.services[k].id # inp.arg => Occurrences(a1.services, a0.services[k]) = 1
        /\ Len(a2.services) = n
        /\ SubSeq(a2.services, 1, n - 1) = a1.services
        /\ a2.services[n] = TwiceTemplate
        /\ a2.services[n].evaluationStatus = TwiceTemplate.evaluationStatus

\* C22 (toggle twice): on an arrangement that holds the service, the first
\* call removes it and keeps the others, the second appends the catalog
\* template's copy at the end of the list with the template's status
\* whatever status the removed copy had, and after a later cycle of the
\* re-added service the catalog still holds the template unchanged.
ToggleTwiceReadds ==
    TwiceHeld =>
        /\ out.op = "toggledTwice" => TwiceEffect(out.first, out.arrangements)
        /\ out.op = "cycledAfter" =>
              LET a3 == FindById(out.arrangements, inp.target)
              IN  /\ TwiceEffect(out.first, out.second)
                  /\ FindById(a3.services, inp.arg).evaluationStatus
                        = NextStatus(TwiceTemplate.evaluationStatus)
                  /\ TwiceTemplate = FindById(FindById(out.second, inp.target).services, inp.arg)

\* C22 witness: both calls are done on an arrangement that held the service
\* elsewhere than at the end and with a status other than the template's,
\* and the service is now last, with the template's status.
ToggleTwiceReaddsWitness ==
    /\ out.op = "toggledTwice"
    /\ TwiceHeld
    /\ LET a0 == FindById(inp.arrangements, inp.target)
           a2 == FindById(out.arrangements, inp.target)
       IN  /\ a0.services[Len(a0.services)].id # inp.arg
           /\ FindById(a0.services, inp.arg).evaluationStatus # TwiceTemplate.evaluationStatus
           /\ a2.services[Len(a2.services)].id = inp.arg
           /\ a2.services[Len(a2.services)].evaluationStatus = TwiceTemplate.evaluationStatus

\* the active id names an arrangement, and the memoized lookup found one
ActivePresent ==
    /\ HasId(arrangements, activeArrangementId)
    /\ memo.activeArrangement.value.obj # NotFound
    /\ memo.activeRules.value # Thrown

\* C23 (active id present): in every reachable state the active id names an
\* arrangement of the collection and the memoized lookup is not undefined;
\* and in every step the id that was active is still in the collection the
\* step leaves, which is the state between fork's append and its change of
\* the active id.
ActiveAlwaysPresent ==
    [](ActivePresent) /\ [][HasId(arrangements', activeArrangementId)]_vars

\* C23 witness: a fork has just made the appended arrangement the active
\* one, and the lookup finds it.
ActiveAlwaysPresentWitness ==
    /\ last.op = "handleFork"
    /\ Len(arrangements) = Len(INITIAL_ARRANGEMENTS) + 1
    /\ activeArrangementId = arrangements[Len(arrangements)].id
    /\ memo.activeArrangement.value.obj = arrangements[Len(arrangements)]

\* per rule, in order, the verdict and the names of the matching services
Verdicts(arr) ==
    LET evaluated == getEvaluatedRules(arr)
    IN  [k \in 1..Len(evaluated) |->
            [id |-> evaluated[k].id,
             status |-> evaluated[k].status,
             matchingServices |-> evaluated[k].matchingServices]]

\* a fork step leaves the new arrangement with the verdicts of its source
ForkKeepsVerdicts ==
    (last'.op = "handleFork" /\ Len(arrangements') = Len(arrangements) + 1) =>
        LET f == Len(arrangements')
        IN  /\ Verdicts(arrangements'[f]) = Verdicts(arrangements[forkedFrom'[f]])
            /\ Verdicts(arrangements'[f]) = Verdicts(arrangements'[forkedFrom'[f]])

\* a step after which a fork and its source no longer agree is a toggle or
\* a cycle with one of the two as the active arrangement (the verdicts are
\* a function of the arrangement, so only steps changing one of the two are
\* looked at)
DivergeByToggleOrCycle ==
    \A f \in 1..Len(arrangements) :
        (/\ forkedFrom[f] # 0
         /\ \/ arrangements'[f] # arrangements[f]
            \/ arrangements'[forkedFrom[f]] # arrangements[forkedFrom[f]]
         /\ Verdicts(arrangements[f]) = Verdicts(arrangements[forkedFrom[f]])
         /\ Verdicts(arrangements'[f]) # Verdicts(arrangements'[forkedFrom[f]]))
        => /\ last'.op \in {"handleToggleService", "handleCycleStatus"}
           /\ activeArrangementId \in {arrangements[f].id, arrangements[forkedFrom[f]].id}

\* C24 (fork preserves verdicts): right after a fork the new arrangement's
\* evaluated rules have, rule by rule and in the same order, the status and
\* the matching services of its source's; a fork and its source that agree
\* stop agreeing only in a toggle or cycle step on one of the two.
ForkPreservesVerdicts == [][ForkKeepsVerdicts /\ DivergeByToggleOrCycle]_vars

\* C24 witness: a seed arrangement whose verdicts are no longer the loaded
\* ones has just been forked, and the fork has the source's verdicts, some
\* rule having matching services.
ForkPreservesVerdictsWitness ==
    /\ last.op = "handleFork"
    /\ Len(arrangements) = Len(INITIAL_ARRANGEMENTS) + 1
    /\ LET f == Len(arrangements)
           a == forkedFrom[f]
       IN  /\ Verdicts(arrangements[f]) = Verdicts(arrangements[a])
           /\ Verdicts(arrangements[f]) # Verdicts(INITIAL_ARRANGEMENTS[a])
           /\ \E k \in 1..Len(Verdicts(arrangements[f])) :
                 Verdicts(arrangements[f])[k].matchingServices # <<>>

====
